---- MODULE Spec2Model ----
(***************************************************************************)
(* A model of the expression calculator of src/src/expr.hpp: the symbol    *)
(* table (symbol_table_t), the expression nodes, the evaluator             *)
(* (eval_visitor_t) and the printer (print_visitor), with the expressions  *)
(* of src/src/test.cpp as the stored trees.                                *)
(*                                                                         *)
(* Doubles are modelled as signed extended rationals [s, n, d]: the value  *)
(* is s * n / d.  d = 0 with n = 1 is an infinity, n = 0 with d = 0 is     *)
(* NaN, and n = 0 with d = 1 is a zero, +0 or -0 by s.  The arithmetic     *)
(* follows IEEE 754 for signs, zeros, infinities and NaN; rounding is not  *)
(* modelled (the quotients are exact).                                     *)
(***************************************************************************)
EXTENDS Integers, Sequences, FiniteSets

VARIABLES
    m_names,   \* symbol_table_t::m_names
    m_state,   \* symbol_table_t::m_state, slot id at index id + 1
    call,      \* the last call made on the symbol table or on a tree
    pre,       \* m_names and m_state as they were when that call began
    ret,       \* what the call returned
    threw,     \* whether the call ended in std::logic_error
    m_out,     \* the text the last printer wrote to its stream
    nevals     \* the number of evaluations made so far

vars == <<m_names, m_state, call, pre, ret, threw, m_out, nevals>>

(***************************************************************************)
(* Bounds of the model.                                                    *)
(***************************************************************************)
MaxVars == 3
MaxEvals == 3
NumVars == 2

(***************************************************************************)
(* double                                                                  *)
(***************************************************************************)
RECURSIVE GCD(_, _)
GCD(a, b) == IF b = 0 THEN a ELSE GCD(b, a % b)

NaN == [s |-> 1, n |-> 0, d |-> 0]

Norm(s, n, d) ==
    IF n = 0 /\ d = 0 THEN NaN
    ELSE IF d = 0 THEN [s |-> s, n |-> 1, d |-> 0]
    ELSE IF n = 0 THEN [s |-> s, n |-> 0, d |-> 1]
    ELSE [s |-> s, n |-> n \div GCD(n, d), d |-> d \div GCD(n, d)]

Abs(i) == IF i < 0 THEN -i ELSE i

Num(i) == Norm(IF i < 0 THEN -1 ELSE 1, Abs(i), 1)

IsNaN(x) == x.n = 0 /\ x.d = 0

IsInf(x) == x.n # 0 /\ x.d = 0

FNeg(x) == IF IsNaN(x) THEN NaN ELSE [x EXCEPT !.s = -x.s]

FAdd(x, y) ==
    IF IsNaN(x) \/ IsNaN(y) THEN NaN
    ELSE IF IsInf(x) /\ IsInf(y) THEN (IF x.s = y.s THEN x ELSE NaN)
    ELSE IF IsInf(x) THEN x
    ELSE IF IsInf(y) THEN y
    ELSE LET sn == x.s * x.n * y.d + y.s * y.n * x.d
         IN  IF sn = 0
             THEN Norm(IF x.s = -1 /\ y.s = -1 THEN -1 ELSE 1, 0, 1)
             ELSE Norm(IF sn < 0 THEN -1 ELSE 1, Abs(sn), x.d * y.d)

FSub(x, y) == FAdd(x, FNeg(y))

FMul(x, y) ==
    IF IsNaN(x) \/ IsNaN(y) THEN NaN
    ELSE Norm(x.s * y.s, x.n * y.n, x.d * y.d)

FDiv(x, y) ==
    IF IsNaN(x) \/ IsNaN(y) THEN NaN
    ELSE Norm(x.s * y.s, x.n * y.d, x.d * y.n)

\* A division whose zero test never fires.
IsZeroMissing(x) == FALSE

\* second == 0: true of +0 and of -0, false of NaN
IsZero(x) == x.n = 0 /\ x.d # 0

(***************************************************************************)
(* Expression nodes                                                        *)
(***************************************************************************)
constant_t(value) == [t |-> "constant", m_value |-> value]

variable_t(id) == [t |-> "variable", m_id |-> id]

unary_t(operation, value) ==
    [t |-> "unary", m_operation |-> operation, m_value |-> value]

binary_t(operation, first, second) ==
    [t |-> "binary", m_operation |-> operation, m_first |-> first,
     m_second |-> second]

assign_t(operation, first, second) ==
    [t |-> "assign", m_operation |-> operation, m_first |-> first,
     m_second |-> second]

UnaryOps == {"plus", "minus"}

BinaryOps == {"plus", "minus", "mul", "div"}

AssignOps == {"assign", "plus", "minus", "mul", "div"}

(***************************************************************************)
(* eval_visitor_t.  visit(node, state) is the set of outcomes the call can *)
(* have: [val, st, err] with the value returned, the state left behind     *)
(* and whether std::logic_error was thrown.  The set has more than one     *)
(* element only where C++ leaves the order of the two operand visits of    *)
(* +, - and * unspecified.                                                 *)
(***************************************************************************)
NoValue == [s |-> 0, n |-> 0, d |-> 0]

Returned(value, state) == [val |-> value, st |-> state, err |-> FALSE]

Thrown(state) == [val |-> NoValue, st |-> state, err |-> TRUE]

RECURSIVE visit(_, _)

visit_constant(node, state) == {Returned(node.m_value, state)}

\* A read that is off by one slot (wrapping around).
visit_variable_off_by_one(node, state) ==
    {Returned(state[((node.m_id + 1) % Len(state)) + 1], state)}

visit_variable(node, state) == {Returned(state[node.m_id + 1], state)}

\* A unary minus that negates its operand's slot in place.
visit_unary_in_place(node, state) ==
    {IF o.err THEN o
     ELSE IF node.m_operation = "plus" THEN o
     ELSE IF node.m_value.t = "variable"
          THEN Returned(FNeg(o.val),
                        [o.st EXCEPT ![node.m_value.m_id + 1] = FNeg(o.val)])
          ELSE Returned(FNeg(o.val), o.st)
     : o \in visit(node.m_value, state)}

visit_unary(node, state) ==
    {IF o.err THEN o
     ELSE IF node.m_operation = "plus" THEN o
     ELSE Returned(FNeg(o.val), o.st)
     : o \in visit(node.m_value, state)}

\* The two operand values of x and y, x visited before y.
Operands(x, y, state) ==
    UNION {IF ox.err
           THEN {[a |-> NoValue, b |-> NoValue, st |-> ox.st, err |-> TRUE]}
           ELSE {[a |-> ox.val, b |-> oy.val, st |-> oy.st, err |-> oy.err]
                 : oy \in visit(y, ox.st)}
           : ox \in visit(x, state)}

Arith(operation, x, y) ==
    CASE operation = "plus" -> FAdd(x, y)
      [] operation = "minus" -> FSub(x, y)
      [] operation = "mul" -> FMul(x, y)
      [] operation = "div" -> FDiv(x, y)

\* Every operator, division included, visiting m_first before m_second.
visit_binary_left_first(node, state) ==
    {IF p.err THEN Thrown(p.st)
     ELSE IF node.m_operation = "div" /\ IsZero(p.b) THEN Thrown(p.st)
     ELSE Returned(Arith(node.m_operation, p.a, p.b), p.st)
     : p \in Operands(node.m_first, node.m_second, state)}

\* A division that visits m_first before it tests the divisor.
visit_binary_late_check(node, state) ==
    IF node.m_operation = "div"
    THEN {IF p.err THEN Thrown(p.st)
          ELSE IF IsZero(p.a) THEN Thrown(p.st)
          ELSE Returned(FDiv(p.b, p.a), p.st)
          : p \in Operands(node.m_second, node.m_first, state)}
    ELSE {IF p.err THEN Thrown(p.st)
          ELSE Returned(Arith(node.m_operation, p.a, p.b), p.st)
          : p \in Operands(node.m_first, node.m_second, state)}
         \cup
         {IF p.err THEN Thrown(p.st)
          ELSE Returned(Arith(node.m_operation, p.b, p.a), p.st)
          : p \in Operands(node.m_second, node.m_first, state)}

visit_binary(node, state) ==
    IF node.m_operation = "div"
    THEN UNION {IF os.err THEN {Thrown(os.st)}
                ELSE IF IsZero(os.val) THEN {Thrown(os.st)}
                ELSE {IF of.err THEN Thrown(of.st)
                      ELSE Returned(FDiv(of.val, os.val), of.st)
                      : of \in visit(node.m_first, os.st)}
                : os \in visit(node.m_second, state)}
    ELSE {IF p.err THEN Thrown(p.st)
          ELSE Returned(Arith(node.m_operation, p.a, p.b), p.st)
          : p \in Operands(node.m_first, node.m_second, state)}
         \cup
         {IF p.err THEN Thrown(p.st)
          ELSE Returned(Arith(node.m_operation, p.b, p.a), p.st)
          : p \in Operands(node.m_second, node.m_first, state)}

\* A compound update whose -= adds.
Compound_minus_adds(operation, variable, value) ==
    CASE operation = "assign" -> value
      [] operation = "plus" -> FAdd(variable, value)
      [] operation = "minus" -> FAdd(variable, value)
      [] operation = "mul" -> FMul(variable, value)
      [] operation = "div" -> FDiv(variable, value)

\* The switch of visit(assign_t): the new value of the slot.
Compound(operation, variable, value) ==
    CASE operation = "assign" -> value
      [] operation = "plus" -> FAdd(variable, value)
      [] operation = "minus" -> FSub(variable, value)
      [] operation = "mul" -> FMul(variable, value)
      [] operation = "div" -> FDiv(variable, value)

\* An assignment that reads its slot before it visits the value.
visit_assign_early_read(node, state) ==
    {IF o.err THEN o
     ELSE LET i == node.m_first.m_id + 1
              new == Compound(node.m_operation, state[i], o.val)
          IN  Returned(new, [o.st EXCEPT ![i] = new])
     : o \in visit(node.m_second, state)}

visit_assign(node, state) ==
    {IF o.err THEN o
     ELSE LET i == node.m_first.m_id + 1
              new == Compound(node.m_operation, o.st[i], o.val)
          IN  Returned(new, [o.st EXCEPT ![i] = new])
     : o \in visit(node.m_second, state)}

visit(node, state) ==
    CASE node.t = "constant" -> visit_constant(node, state)
      [] node.t = "variable" -> visit_variable(node, state)
      [] node.t = "unary" -> visit_unary(node, state)
      [] node.t = "binary" -> visit_binary(node, state)
      [] node.t = "assign" -> visit_assign(node, state)

(***************************************************************************)
(* print_visitor and printer                                               *)
(***************************************************************************)
Digit(i) ==
    CASE i = 0 -> "0" [] i = 1 -> "1" [] i = 2 -> "2" [] i = 3 -> "3"
      [] i = 4 -> "4" [] i = 5 -> "5" [] i = 6 -> "6" [] i = 7 -> "7"
      [] i = 8 -> "8" [] i = 9 -> "9"

RECURSIVE Digits(_)
Digits(i) == IF i < 10 THEN Digit(i) ELSE Digits(i \div 10) \o Digit(i % 10)

\* operator<<(double), for the values the trees hold as constants: whole
\* numbers below 10^6, which the default format writes without a fraction
\* or an exponent.
FormatDouble(x) ==
    CASE IsNaN(x) -> "nan"
      [] IsInf(x) -> (IF x.s < 0 THEN "-inf" ELSE "inf")
      [] x.d = 1 /\ x.n < 1000000 ->
            (IF x.s < 0 THEN "-" ELSE "") \o Digits(x.n)

\* symbol_table_t::name
name(names, id) == names[id + 1]

RECURSIVE print_visit(_, _)

print_constant(node, names) == FormatDouble(node.m_value)

print_variable(node, names) == name(names, node.m_id)

\* A unary plus that is written out.
print_unary_visible_plus(node, names) ==
    (IF node.m_operation = "minus" THEN "-" ELSE "+")
        \o print_visit(node.m_value, names)

print_unary(node, names) ==
    (IF node.m_operation = "minus" THEN "-" ELSE "")
        \o print_visit(node.m_value, names)

binary_symbol(operation) ==
    CASE operation = "plus" -> "+"
      [] operation = "minus" -> "-"
      [] operation = "mul" -> "*"
      [] operation = "div" -> "/"

print_binary(node, names) ==
    print_visit(node.m_first, names)
        \o binary_symbol(node.m_operation)
        \o print_visit(node.m_second, names)

assign_symbol(operation) ==
    CASE operation = "assign" -> "<<="
      [] operation = "plus" -> "+="
      [] operation = "minus" -> "-="
      [] operation = "mul" -> "*="
      [] operation = "div" -> "/="

print_assign(node, names) ==
    print_visit(node.m_first, names)
        \o assign_symbol(node.m_operation)
        \o print_visit(node.m_second, names)

print_visit(node, names) ==
    CASE node.t = "constant" -> print_constant(node, names)
      [] node.t = "variable" -> print_variable(node, names)
      [] node.t = "unary" -> print_unary(node, names)
      [] node.t = "binary" -> print_binary(node, names)
      [] node.t = "assign" -> print_assign(node, names)

(***************************************************************************)
(* The trees.  Ids(node) is the set of slots a tree names; a tree is used  *)
(* on a symbol table only when the table has minted all of them.           *)
(***************************************************************************)
RECURSIVE Ids(_)
Ids(node) ==
    CASE node.t = "constant" -> {}
      [] node.t = "variable" -> {node.m_id}
      [] node.t = "unary" -> Ids(node.m_value)
      [] node.t = "binary" -> Ids(node.m_first) \cup Ids(node.m_second)
      [] node.t = "assign" -> {node.m_first.m_id} \cup Ids(node.m_second)

RECURSIVE HasAssign(_)
HasAssign(node) ==
    CASE node.t = "constant" -> FALSE
      [] node.t = "variable" -> FALSE
      [] node.t = "unary" -> HasAssign(node.m_value)
      [] node.t = "binary" -> HasAssign(node.m_first) \/ HasAssign(node.m_second)
      [] node.t = "assign" -> TRUE

\* The slots the Assign nodes of a tree write.
RECURSIVE Targets(_)
Targets(node) ==
    CASE node.t = "constant" -> {}
      [] node.t = "variable" -> {}
      [] node.t = "unary" -> Targets(node.m_value)
      [] node.t = "binary" -> Targets(node.m_first) \cup Targets(node.m_second)
      [] node.t = "assign" -> {node.m_first.m_id} \cup Targets(node.m_second)

\* The builder operators of expr.hpp.
Plus(x, y) == binary_t("plus", x, y)
Minus(x, y) == binary_t("minus", x, y)
Mul(x, y) == binary_t("mul", x, y)
Div(x, y) == binary_t("div", x, y)
Pos(x) == unary_t("plus", x)
Neg(x) == unary_t("minus", x)
Assign(v, y) == assign_t("assign", v, y)
PlusAssign(v, y) == assign_t("plus", v, y)
MinusAssign(v, y) == assign_t("minus", v, y)
MulAssign(v, y) == assign_t("mul", v, y)
DivAssign(v, y) == assign_t("div", v, y)

\* The variables and the expressions of TEST_CASE("Calculate").
a == variable_t(0)
b == variable_t(1)
c == variable_t(2)

Declarations == {<<"a", Num(2)>>, <<"b", Num(3)>>, <<"c", Num(0)>>}

\* The expressions the test case evaluates.
EvalTrees ==
    { a, b, c, Pos(a), Neg(b), Neg(c),
      Plus(a, b), Minus(a, b),
      Assign(c, Minus(b, a)), PlusAssign(c, Minus(b, Mul(a, c))),
      Minus(a, Minus(b, c)), Minus(a, Minus(b, a)),
      Mul(a, b), Div(a, b), Div(a, c),
      Plus(a, Mul(a, b)), Minus(a, Div(b, a)),
      Plus(constant_t(Num(7)), a), Minus(a, constant_t(Num(7))),
      Mul(Plus(a, b), c), Assign(c, constant_t(Num(4))) }

\* The expressions the test case prints.
PrintTrees ==
    { Plus(a, b), PlusAssign(a, b), Assign(a, b), Plus(a, constant_t(Num(2))) }

\* Expressions over NumVars variables and one constant, two operators deep.
\* The operands of a two-deep binary node are the leaves, the assignments
\* and the divisions: the nodes with a side effect or a failure.
VarIds == 0 .. NumVars - 1

Leaves == {constant_t(Num(2))} \cup {variable_t(i) : i \in VarIds}

Unaries(S) == {unary_t(o, x) : o \in UnaryOps, x \in S}

Binaries(S) == {binary_t(o, x, y) : o \in BinaryOps, x \in S, y \in S}

Assigns(S) ==
    {assign_t(o, variable_t(i), x) : o \in AssignOps, i \in VarIds, x \in S}

Level1 == Leaves \cup Unaries(Leaves) \cup Binaries(Leaves) \cup Assigns(Leaves)

Effects ==
    Leaves \cup Assigns(Leaves)
        \cup {binary_t("div", x, y) : x \in Leaves, y \in Leaves}

GenTrees == Level1 \cup Unaries(Level1) \cup Binaries(Effects) \cup Assigns(Level1)

VarNames == <<"a", "b", "c", "d">>

EnvValues == {Num(0), Num(3)}

(***************************************************************************)
(* The calls                                                               *)
(***************************************************************************)
NoCall == [op |-> "none"]

Snapshot == [names |-> m_names, state |-> m_state]

\* An id taken after the push_back instead of before it.
new_id_after_push(state) == Len(state) + 1

\* const auto id = m_state.size();
new_id(state) == Len(state)

\* symbol_table_t::variable
Variable(nm, init) ==
    /\ Len(m_state) < MaxVars
    /\ m_names' = Append(m_names, nm)
    /\ m_state' = Append(m_state, init)
    /\ ret' = variable_t(new_id(m_state))
    /\ call' = [op |-> "variable", name |-> nm, init |-> init]
    /\ pre' = Snapshot
    /\ threw' = FALSE
    /\ UNCHANGED <<m_out, nevals>>

\* node_t<T>::operator()(state_t &): one of the outcomes of the visit.
Call(node) ==
    /\ Ids(node) \subseteq 0 .. Len(m_state) - 1
    /\ \E o \in visit(node, m_state) :
          /\ m_state' = o.st
          /\ ret' = o.val
          /\ threw' = o.err
    /\ call' = [op |-> "evaluate", node |-> node]
    /\ pre' = Snapshot
    /\ nevals' = nevals + 1
    /\ UNCHANGED <<m_names, m_out>>

\* operator<<(std::ostream &, const printer &) on a fresh stream.
Printer(node) ==
    /\ Ids(node) \subseteq 0 .. Len(m_state) - 1
    /\ m_out' = print_visit(node, m_names)
    /\ call' = [op |-> "print", node |-> node]
    /\ pre' = Snapshot
    /\ ret' = NoValue
    /\ threw' = FALSE
    /\ UNCHANGED <<m_names, m_state, nevals>>

(***************************************************************************)
(* Spec: a symbol table from its construction on, with the variables and   *)
(* the expressions of the test case.                                       *)
(***************************************************************************)
Init ==
    /\ m_names = <<>>
    /\ m_state = <<>>
    /\ call = NoCall
    /\ pre = [names |-> <<>>, state |-> <<>>]
    /\ ret = NoValue
    /\ threw = FALSE
    /\ m_out = ""
    /\ nevals = 0

Declare == \E d \in Declarations : Variable(d[1], d[2])

Evaluate == nevals < MaxEvals /\ \E node \in EvalTrees : Call(node)

Render == \E node \in PrintTrees : Printer(node)

Next == Declare \/ Evaluate \/ Render

Spec == Init /\ [][Next]_vars

(***************************************************************************)
(* SpecEval: one evaluation or one printing of any of the generated        *)
(* expressions, on a table of NumVars variables whose values are drawn     *)
(* from EnvValues.                                                         *)
(***************************************************************************)
InitEval ==
    /\ m_names = [i \in 1 .. NumVars |-> VarNames[i]]
    /\ m_state \in [1 .. NumVars -> EnvValues]
    /\ call = NoCall
    /\ pre = [names |-> <<>>, state |-> <<>>]
    /\ ret = NoValue
    /\ threw = FALSE
    /\ m_out = ""
    /\ nevals = 0

EvaluateOnce == call = NoCall /\ \E node \in GenTrees : Call(node)

PrintOnce == call = NoCall /\ \E node \in GenTrees : Printer(node)

NextEval == EvaluateOnce \/ PrintOnce

SpecEval == InitEval /\ [][NextEval]_vars

(***************************************************************************)
(* SpecFixture: the table of the test case (a = 2, b = 3, c = 0) and the   *)
(* expressions it evaluates, with its two assignments to c taken under     *)
(* every assignment operator.                                              *)
(***************************************************************************)
CompoundTrees ==
    {assign_t(o, c, x) : o \in AssignOps,
                         x \in {Minus(b, a), Minus(b, Mul(a, c))}}

InitFixture ==
    /\ m_names = <<"a", "b", "c">>
    /\ m_state = <<Num(2), Num(3), Num(0)>>
    /\ call = NoCall
    /\ pre = [names |-> <<>>, state |-> <<>>]
    /\ ret = NoValue
    /\ threw = FALSE
    /\ m_out = ""
    /\ nevals = 0

EvaluateFixture ==
    nevals < MaxEvals /\ \E node \in EvalTrees \cup CompoundTrees : Call(node)

NextFixture == EvaluateFixture

SpecFixture == InitFixture /\ [][NextFixture]_vars

(***************************************************************************)
(* Properties                                                              *)
(***************************************************************************)
Evaluated == call.op = "evaluate"

Node == call.node

\* A value that compares equal to 0: +0 or -0.
ZeroValue(x) == x = Num(0) \/ x = FNeg(Num(0))

\* The operator of a compound assignment or of a binary node, applied.
Apply(operation, x, y) ==
    CASE operation = "assign" -> y
      [] operation = "plus" -> FAdd(x, y)
      [] operation = "minus" -> FSub(x, y)
      [] operation = "mul" -> FMul(x, y)
      [] operation = "div" -> FDiv(x, y)

\* C1: evaluating Binary(Div, l, r), with r evaluated to a value, throws the
\* division-by-zero error when that value equals 0 (leaving the state as r
\* left it) and otherwise returns the value of l divided by the value of r;
\* a failure of an operand's own evaluation is passed on.
C1_DivisionByZeroExactly ==
    (Evaluated /\ Node.t = "binary" /\ Node.m_operation = "div") =>
        \E os \in visit(Node.m_second, pre.state) :
            IF os.err THEN threw /\ m_state = os.st
            ELSE IF ZeroValue(os.val) THEN threw /\ m_state = os.st
            ELSE \E of \in visit(Node.m_first, os.st) :
                    IF of.err THEN threw /\ m_state = of.st
                    ELSE /\ ~threw
                         /\ ret = FDiv(of.val, os.val)
                         /\ m_state = of.st

\* C1 witness: a / b with b = 0 has thrown.
C1_Witness ==
    /\ Evaluated
    /\ Node = Div(a, b)
    /\ pre.state[2] = Num(0)
    /\ threw

\* C2 as claimed: evaluating v /= e, with e evaluated to exactly 0, throws
\* the division-by-zero error and leaves env[v.id] at the value it had
\* before the division.
C2_CompoundDivisionChecksZero ==
    (Evaluated /\ Node.t = "assign" /\ Node.m_operation = "div") =>
        \A o \in visit(Node.m_second, pre.state) :
            LET i == Node.m_first.m_id + 1
            IN  ( /\ ~o.err
                  /\ ZeroValue(o.val)
                  /\ \A j \in DOMAIN m_state : j # i => m_state[j] = o.st[j] )
                => (threw /\ m_state[i] = o.st[i])

\* C3 as claimed, at the operator Div: a Binary Div node evaluates its left
\* operand before its right operand.
C3_LeftBeforeRight ==
    (Evaluated /\ Node.t = "binary" /\ Node.m_operation = "div" /\ ~threw) =>
        \E p \in Operands(Node.m_first, Node.m_second, pre.state) :
            /\ ~p.err
            /\ ret = Apply(Node.m_operation, p.a, p.b)
            /\ m_state = p.st

\* C3 as amended: Binary Div evaluates its right operand before its left
\* operand; Binary Plus, Minus and Mul evaluate their operands one after
\* the other in one of the two orders.
C3_OperandOrder ==
    (Evaluated /\ Node.t = "binary" /\ ~threw) =>
        \/ /\ Node.m_operation # "div"
           /\ \E p \in Operands(Node.m_first, Node.m_second, pre.state) :
                /\ ~p.err
                /\ ret = Apply(Node.m_operation, p.a, p.b)
                /\ m_state = p.st
        \/ \E p \in Operands(Node.m_second, Node.m_first, pre.state) :
                /\ ~p.err
                /\ ret = Apply(Node.m_operation, p.b, p.a)
                /\ m_state = p.st

\* C3 witness: a / (a <<= 2) with a = 3 has returned 2 / 2, the left operand
\* having read the slot after the right operand's Assign.
C3_Witness ==
    /\ Evaluated
    /\ Node = Div(a, Assign(a, constant_t(Num(2))))
    /\ pre.state[1] = Num(3)
    /\ ret = Num(1)

C5_CompoundFromOldEnv ==
    (Evaluated /\ Node.t = "assign" /\ Node.m_operation # "assign" /\ ~threw) =>
        \E o \in visit(Node.m_second, pre.state) :
            LET i == Node.m_first.m_id + 1
            IN  /\ ~o.err
                /\ ret = Apply(Node.m_operation, pre.state[i], o.val)
                /\ m_state[i] = ret

\* C5 as amended: evaluate(v op= e) returns slot op evaluate(e), slot being
\* the value of env[v.id] once e has been evaluated, and leaves env[v.id]
\* at that value; slot is old_env[v.id] when e contains no Assign to v.
C5_CompoundFromCurrentSlot ==
    (Evaluated /\ Node.t = "assign" /\ Node.m_operation # "assign" /\ ~threw) =>
        \E o \in visit(Node.m_second, pre.state) :
            LET i == Node.m_first.m_id + 1
            IN  /\ ~o.err
                /\ m_state = [o.st EXCEPT ![i] = ret]
                /\ ret = Apply(Node.m_operation, o.st[i], o.val)
                /\ Node.m_first.m_id \notin Targets(Node.m_second) =>
                      ret = Apply(Node.m_operation, pre.state[i], o.val)

\* C5 witness: a += (a <<= 2) with a = 3 has returned 2 + 2.
C5_Witness ==
    /\ Evaluated
    /\ Node = PlusAssign(a, Assign(a, constant_t(Num(2))))
    /\ pre.state[1] = Num(3)
    /\ ret = Num(4)
    /\ m_state[1] = Num(4)

\* C6: evaluating a tree without an Assign node leaves the environment as it
\* was, whether the evaluation returns or throws.
C6_AssignFreeKeepsState ==
    (Evaluated /\ ~HasAssign(Node)) => m_state = pre.state

\* C6 witness: an Assign-free tree with a unary minus over a division has
\* thrown.
C6_Witness ==
    /\ Evaluated
    /\ Node = Neg(Div(a, b))
    /\ threw

\* C7: when an evaluation throws, the state is the one left at the moment
\* the zero divisor was detected: the operand evaluated before the failing
\* one keeps its Assigns' effects, and neither the node enclosing the
\* failure nor an operand due after it has written anything.
C7_NoRollback ==
    (Evaluated /\ threw) =>
        CASE Node.t = "assign" ->
                \E o \in visit(Node.m_second, pre.state) :
                    o.err /\ m_state = o.st
          [] Node.t = "unary" ->
                \E o \in visit(Node.m_value, pre.state) :
                    o.err /\ m_state = o.st
          [] Node.t = "binary" /\ Node.m_operation = "div" ->
                \E os \in visit(Node.m_second, pre.state) :
                    \/ os.err /\ m_state = os.st
                    \/ ~os.err /\ ZeroValue(os.val) /\ m_state = os.st
                    \/ /\ ~os.err
                       /\ ~ZeroValue(os.val)
                       /\ \E of \in visit(Node.m_first, os.st) :
                             of.err /\ m_state = of.st
          [] Node.t = "binary" /\ Node.m_operation # "div" ->
                \E xy \in {<<Node.m_first, Node.m_second>>,
                           <<Node.m_second, Node.m_first>>} :
                    \E ox \in visit(xy[1], pre.state) :
                        \/ ox.err /\ m_state = ox.st
                        \/ /\ ~ox.err
                           /\ \E oy \in visit(xy[2], ox.st) :
                                 oy.err /\ m_state = oy.st
          [] OTHER -> FALSE

\* C7 witness: (a <<= 2) + (a / b) with a = 3, b = 0 has thrown after the
\* Assign of the left operand was applied.
C7_Witness ==
    /\ Evaluated
    /\ Node = Plus(Assign(a, constant_t(Num(2))), Div(a, b))
    /\ pre.state = <<Num(3), Num(0)>>
    /\ threw
    /\ m_state = <<Num(2), Num(0)>>

\* C8: m_names and m_state have the same length; variable(name, init)
\* appends one entry to both and returns the Variable of the length before
\* the call, whose name is then name and whose evaluation yields init;
\* evaluating and printing leave the length and the names as they were, and
\* no slot is removed or reordered.
C8_TableAligned ==
    /\ Len(m_names) = Len(m_state)
    /\ call.op = "variable" =>
          /\ ret.t = "variable"
          /\ ret.m_id = Len(pre.state)
          /\ Len(m_state) = Len(pre.state) + 1
          /\ Len(m_names) = Len(pre.names) + 1
          /\ name(m_names, ret.m_id) = call.name
          /\ visit(ret, m_state) = {Returned(call.init, m_state)}
          /\ \A i \in 1 .. Len(pre.state) :
                m_state[i] = pre.state[i] /\ m_names[i] = pre.names[i]
    /\ call.op \in {"evaluate", "print"} =>
          /\ Len(m_state) = Len(pre.state)
          /\ m_names = pre.names

\* C8 witness: the third variable() call, c with 0 after a and b, has
\* returned the Variable of id 2.
C8_Witness ==
    /\ call.op = "variable"
    /\ m_names = <<"a", "b", "c">>
    /\ m_state = <<Num(2), Num(3), Num(0)>>
    /\ ret = variable_t(2)

\* The value of an Assign-free tree over a state.
RECURSIVE Value(_, _)
Value(node, state) ==
    CASE node.t = "constant" -> node.m_value
      [] node.t = "variable" -> state[node.m_id + 1]
      [] node.t = "unary" ->
            IF node.m_operation = "minus"
            THEN FNeg(Value(node.m_value, state))
            ELSE Value(node.m_value, state)
      [] node.t = "binary" ->
            Apply(node.m_operation, Value(node.m_first, state),
                  Value(node.m_second, state))

\* C9: each evaluation of a stored Assign-free tree yields the tree's value
\* over the environment's current contents; from a = 2, b = 3, c = 0,
\* (a + b) * c gives 0, c <<= 4 gives 4 and (a + b) * c then gives 20.
C9_ReuseReadsCurrentState ==
    /\ (Evaluated /\ ~HasAssign(Node) /\ ~threw) => ret = Value(Node, m_state)
    /\ ( /\ Evaluated
         /\ Node = Mul(Plus(a, b), c)
         /\ pre.state = <<Num(2), Num(3), Num(0)>> )
          => (~threw /\ ret = Num(0))
    /\ ( /\ Evaluated
         /\ Node = Assign(c, constant_t(Num(4)))
         /\ Len(pre.state) = 3 )
          => (~threw /\ ret = Num(4) /\ m_state[3] = Num(4))
    /\ ( /\ Evaluated
         /\ Node = Mul(Plus(a, b), c)
         /\ pre.state = <<Num(2), Num(3), Num(4)>> )
          => (~threw /\ ret = Num(20))

\* C9 witness: (a + b) * c has returned 20 on a = 2, b = 3, c = 4, a state
\* that only the evaluation of c <<= 4 leads to.
C9_Witness ==
    /\ Evaluated
    /\ Node = Mul(Plus(a, b), c)
    /\ pre.state = <<Num(2), Num(3), Num(4)>>
    /\ m_names = <<"a", "b", "c">>
    /\ ret = Num(20)

BinarySymbol(operation) ==
    CASE operation = "plus" -> "+"
      [] operation = "minus" -> "-"
      [] operation = "mul" -> "*"
      [] operation = "div" -> "/"

AssignSymbol(operation) ==
    CASE operation = "assign" -> "<<="
      [] operation = "plus" -> "+="
      [] operation = "minus" -> "-="
      [] operation = "mul" -> "*="
      [] operation = "div" -> "/="

\* C10: printing changes neither the names nor the environment; a Variable
\* is written as its name, Unary Plus as its operand alone, Unary Minus as
\* "-" and its operand, Binary as left, symbol (+ - * /), right without
\* parentheses, and Assign as target, symbol (<<= += -= *= /=), value;
\* a + b is written "a+b", a += b "a+=b", a <<= b "a<<=b", a + 2 "a+2".
C10_RenderShape ==
    call.op = "print" =>
        /\ m_state = pre.state
        /\ m_names = pre.names
        /\ ~threw
        /\ Node.t = "variable" => m_out = m_names[Node.m_id + 1]
        /\ (Node.t = "unary" /\ Node.m_operation = "plus") =>
              m_out = print_visit(Node.m_value, m_names)
        /\ (Node.t = "unary" /\ Node.m_operation = "minus") =>
              m_out = "-" \o print_visit(Node.m_value, m_names)
        /\ Node.t = "binary" =>
              m_out = print_visit(Node.m_first, m_names)
                        \o BinarySymbol(Node.m_operation)
                        \o print_visit(Node.m_second, m_names)
        /\ Node.t = "assign" =>
              m_out = m_names[Node.m_first.m_id + 1]
                        \o AssignSymbol(Node.m_operation)
                        \o print_visit(Node.m_second, m_names)
        /\ Node = Plus(a, b) => m_out = "a+b"
        /\ Node = PlusAssign(a, b) => m_out = "a+=b"
        /\ Node = Assign(a, b) => m_out = "a<<=b"
        /\ Node = Plus(a, constant_t(Num(2))) => m_out = "a+2"

\* C10 witness: a += b has been printed as "a+=b".
C10_Witness ==
    /\ call.op = "print"
    /\ Node = PlusAssign(a, b)
    /\ m_out = "a+=b"

====
